---- MODULE Spec2Model ----
(***************************************************************************)
(* Jira ticket analytics Lambda (the canonical handler variant).           *)
(*                                                                         *)
(* Two parts are modelled:                                                 *)
(*   - the analytics engine: processTickets and the three calculate*       *)
(*     functions, as operators over JavaScript values;                     *)
(*   - the handler and storeMetrics, as a state machine of concurrent      *)
(*     invocations that share one DynamoDB table through a retrying        *)
(*     DocumentClient.                                                     *)
(***************************************************************************)
EXTENDS Integers, Sequences, FiniteSets, TLC

VARIABLES
    tickets,    \* engine: the ticket list handed to processTickets
    result,     \* engine: what processTickets returned or raised
    clock,      \* wall clock, in ms since the clock origin
    store,      \* the table: key -> item, or NoItem
    writeLog,   \* history: the updates the table applied, in order
    pc,         \* per invocation: position in handler / storeMetrics
    event,      \* per invocation: the Lambda event
    metrics,    \* per invocation: the value processTickets returned
    params,     \* per invocation: the update parameters storeMetrics built
    calls,      \* per invocation: dynamoDB.update() calls made by storeMetrics
    attempts,   \* per invocation: requests the client sent to the table
    reply,      \* per invocation: the table's answer to the last request
    thrown,     \* per invocation: the error storeMetrics threw
    response    \* per invocation: the handler's return value

vars == <<tickets, result, clock, store, writeLog, pc, event, metrics, params,
          calls, attempts, reply, thrown, response>>

(***************************************************************************)
(* Bounds of the model.                                                    *)
(***************************************************************************)
MaxTickets == 3
MaxTicks == 2

(***************************************************************************)
(* JavaScript values.  Every value is a record tagged with its typeof.     *)
(* A number carries v, an integer in the unit its context states, or is    *)
(* NaN.                                                                    *)
(***************************************************************************)
Undefined == [type |-> "undefined"]
Str(s) == [type |-> "string", str |-> s]
N(x) == [type |-> "number", nan |-> FALSE, v |-> x]
NaN == [type |-> "number", nan |-> TRUE, v |-> 0]
TypeError == [type |-> "TypeError"]
Arr(items) == [type |-> "array", items |-> items]

\* ToBoolean, as `a && b` and `!a` apply it
Truthy(x) ==
    CASE x.type = "undefined" -> FALSE
      [] x.type = "string" -> x.str # ""
      [] x.type = "number" -> ~x.nan /\ x.v # 0
      [] OTHER -> TRUE

\* String.prototype.toLowerCase on the strings the model uses
ToLowerCaseIdentity(s) == s
ToLowerCase(s) ==
    CASE s = "CRITICAL" -> "critical"
      [] s = "High" -> "high"
      [] s = "HIGH" -> "high"
      [] s = "Low" -> "low"
      [] OTHER -> s

\* ticket.severity?.toLowerCase(): undefined short-circuits, a string is
\* lower-cased, any other value has no toLowerCase and the call throws
OptionalToLowerCase(x) ==
    CASE x.type = "undefined" -> Undefined
      [] x.type = "string" -> Str(ToLowerCase(x.str))
      [] OTHER -> TypeError

Severities == {"low", "medium", "high", "critical"}

\* Lower-case names every object literal inherits from Object.prototype;
\* obj[name] is a function there, hence !== undefined
InheritedProps == {"constructor"}

\* obj[key] !== undefined, for an object literal obj
HasProp(obj, key) ==
    /\ key.type = "string"
    /\ key.str \in (DOMAIN obj) \cup InheritedProps

\* what `function Object() { [native code] }` + number evaluates to
FunctionString == Str("function Object() { [native code] }...")

\* x++ / x += 1 on a number
Incr(x) == IF x.type = "number" /\ ~x.nan THEN N(x.v + 1) ELSE NaN

\* obj[k]++ : an own counter is incremented; an inherited function is
\* converted to NaN and stored as an own property
IncrProp(obj, k) ==
    IF k \in DOMAIN obj
    THEN [obj EXCEPT ![k] = Incr(obj[k])]
    ELSE [x \in (DOMAIN obj) \cup {k} |-> IF x = k THEN NaN ELSE obj[x]]

ZeroMap == [s \in Severities |-> N(0)]

(***************************************************************************)
(* Dates.  new Date(string).getTime() in ms, counted from                  *)
(* 2024-01-01T00:00:00Z; an unparseable string gives an Invalid Date       *)
(* (NaN).                                                                  *)
(***************************************************************************)
MsPerHour == 1000 * 60 * 60

DateParse(x) ==
    CASE x = Str("2024-01-01T00:00:00Z") -> N(0)
      [] x = Str("2024-01-01T04:00:00Z") -> N(4 * MsPerHour)
      [] x = Str("2024-01-01T04:00:00.001Z") -> N(4 * MsPerHour + 1)
      [] x = Str("2024-01-01T12:00:00Z") -> N(12 * MsPerHour)
      [] x = Str("2024-01-02T00:00:00Z") -> N(24 * MsPerHour)
      [] x = Str("2024-01-02T01:00:00Z") -> N(25 * MsPerHour)
      [] x = Str("2024-01-04T00:00:00Z") -> N(72 * MsPerHour)
      [] x = Str("2024-01-04T01:00:00Z") -> N(73 * MsPerHour)
      [] x = Str("2024-01-08T00:00:00Z") -> N(168 * MsPerHour)
      [] x = Str("2024-01-08T01:00:00Z") -> N(169 * MsPerHour)
      [] OTHER -> NaN

\* (resolved - created) / (1000 * 60 * 60): hours as the exact quotient
\* whole + frac / MsPerHour, or NaN
Hours(whole, frac) == [type |-> "number", nan |-> FALSE, whole |-> whole, frac |-> frac]
HoursNaN == [type |-> "number", nan |-> TRUE, whole |-> 0, frac |-> 0]

HoursToResolve(created, resolved) ==
    LET c == DateParse(created)
        r == DateParse(resolved)
    IN  IF c.nan \/ r.nan THEN HoursNaN
        ELSE Hours((r.v - c.v) \div MsPerHour, (r.v - c.v) % MsPerHour)

\* a += b on hour values
AddHours(a, b) ==
    IF a.type # "number" THEN FunctionString
    ELSE IF a.nan \/ b.nan THEN HoursNaN
    ELSE Hours(a.whole + b.whole + ((a.frac + b.frac) \div MsPerHour),
               (a.frac + b.frac) % MsPerHour)

(***************************************************************************)
(* Number.prototype.toFixed(1) and parseFloat.  toFixed(1) of n/d gives a  *)
(* decimal string with one fraction digit, held as its count of tenths     *)
(* (ties round away from zero); parseFloat reads it back as a number in    *)
(* tenths.                                                                 *)
(***************************************************************************)
Fixed1(t) == [type |-> "string", tenths |-> t]

RoundTenths(n, d) ==
    LET q == n \div d
        r == n % d
    IN  10 * q + ((20 * r + d) \div (2 * d))

ToFixed1(n, d) ==
    IF n >= 0 THEN Fixed1(RoundTenths(n, d)) ELSE Fixed1(0 - RoundTenths(0 - n, d))

ParseFloat(s) ==
    IF s.type = "string" /\ "tenths" \in DOMAIN s THEN N(s.tenths) ELSE NaN

(***************************************************************************)
(* What a function call yields: a returned value, or a raised TypeError.   *)
(***************************************************************************)
Raised == [raised |-> TRUE, error |-> "TypeError"]
Returned(x) == [raised |-> FALSE, value |-> x]

\* x > 0 on a counter
Positive(x) == x.type = "number" /\ ~x.nan /\ x.v > 0

\* x.toFixed(1) for x = c * 100 / d, c a counter
CounterToFixed1(c, d) ==
    IF c.type = "number" /\ ~c.nan THEN ToFixed1(100 * c.v, d) ELSE Str("NaN")

(***************************************************************************)
(* calculateSeverityDistribution                                           *)
(***************************************************************************)
RECURSIVE SeverityCounts(_, _)
SeverityCounts(tks, distribution) ==
    IF tks = <<>> THEN Returned(distribution)
    ELSE LET severity == OptionalToLowerCase(Head(tks).severity)
         IN  IF severity = TypeError THEN Raised
             ELSE SeverityCounts(Tail(tks),
                      IF HasProp(distribution, severity)
                      THEN IncrProp(distribution, severity.str)
                      ELSE distribution)

\* the same computation without the total > 0 guard, the optional chaining
\* and the parseFloat: ((count / total) * 100).toFixed(1)
RECURSIVE SeverityCountsUnguarded(_, _)
SeverityCountsUnguarded(tks, distribution) ==
    IF tks = <<>> THEN Returned(distribution)
    ELSE LET severity == IF Head(tks).severity.type = "string"
                         THEN Str(ToLowerCase(Head(tks).severity.str))
                         ELSE TypeError
         IN  IF severity = TypeError THEN Raised
             ELSE SeverityCountsUnguarded(Tail(tks),
                      IF HasProp(distribution, severity)
                      THEN IncrProp(distribution, severity.str)
                      ELSE distribution)

calculateSeverityDistributionUnguarded(tks) ==
    LET total == Len(tks)
        counted == SeverityCountsUnguarded(tks, ZeroMap)
    IN  IF counted.raised THEN Raised
        ELSE Returned([key \in DOMAIN counted.value |->
                 IF total > 0
                 THEN CounterToFixed1(counted.value[key], total)
                 ELSE Str("NaN")])

calculateSeverityDistribution(tks) ==
    LET total == Len(tks)
        counted == SeverityCounts(tks, ZeroMap)
    IN  IF counted.raised THEN Raised
        ELSE Returned([key \in DOMAIN counted.value |->
                 IF total > 0
                 THEN ParseFloat(CounterToFixed1(counted.value[key], total))
                 ELSE N(0)])

(***************************************************************************)
(* calculateResolutionTimes                                                *)
(***************************************************************************)
\* obj[k] += hours : an own sum grows; an inherited function is
\* concatenated with the number and stored as an own string
AddProp(obj, k, hours) ==
    IF k \in DOMAIN obj
    THEN [obj EXCEPT ![k] = AddHours(obj[k], hours)]
    ELSE [x \in (DOMAIN obj) \cup {k} |-> IF x = k THEN FunctionString ELSE obj[x]]

\* a test of createdDate alone
CreatedDateOnly(ticket) == Truthy(ticket.createdDate)
BothDates(ticket) == Truthy(ticket.createdDate) /\ Truthy(ticket.resolvedDate)

RECURSIVE ResolutionSums(_, _, _)
ResolutionSums(tks, resolutionTimes, counts) ==
    IF tks = <<>> THEN Returned([sums |-> resolutionTimes, counts |-> counts])
    ELSE LET ticket == Head(tks)
         IN  IF ~BothDates(ticket)
             THEN ResolutionSums(Tail(tks), resolutionTimes, counts)
             ELSE LET severity == OptionalToLowerCase(ticket.severity)
                  IN  IF severity = TypeError THEN Raised
                      ELSE IF ~HasProp(resolutionTimes, severity)
                      THEN ResolutionSums(Tail(tks), resolutionTimes, counts)
                      ELSE ResolutionSums(Tail(tks),
                               AddProp(resolutionTimes, severity.str,
                                       HoursToResolve(ticket.createdDate,
                                                      ticket.resolvedDate)),
                               IncrProp(counts, severity.str))

\* (sum / count).toFixed(1) for a sum of hours
AverageToFixed1(sum, count) ==
    IF sum.type # "number" \/ sum.nan THEN Str("NaN")
    ELSE LET qa == (10 * sum.whole) \div count
             ra == (10 * sum.whole) % count
         IN  Fixed1(qa + ((2 * (ra * MsPerHour + 10 * sum.frac) + MsPerHour * count)
                          \div (2 * MsPerHour * count)))

\* a sum no ticket has touched is still the literal 0
Untouched(x) == IF x.type = "number" /\ ~x.nan THEN N(10 * x.whole) ELSE x

calculateResolutionTimes(tks) ==
    LET acc == ResolutionSums(tks, [s \in Severities |-> Hours(0, 0)], ZeroMap)
    IN  IF acc.raised THEN Raised
        ELSE Returned([severity \in DOMAIN acc.value.sums |->
                 IF Positive(acc.value.counts[severity])
                 THEN ParseFloat(AverageToFixed1(acc.value.sums[severity],
                                                 acc.value.counts[severity].v))
                 ELSE Untouched(acc.value.sums[severity])])

(***************************************************************************)
(* calculateSLACompliance                                                  *)
(***************************************************************************)
slaTargets == [critical |-> 4, high |-> 24, medium |-> 72, low |-> 168]

\* hoursToResolve <= target ; a comparison with NaN is false
WithinTargetStrict(hours, target) == ~hours.nan /\ hours.whole < target
WithinTarget(hours, target) ==
    /\ ~hours.nan
    /\ \/ hours.whole < target
       \/ hours.whole = target /\ hours.frac = 0

RECURSIVE ComplianceCounts(_, _, _)
ComplianceCounts(tks, compliance, counts) ==
    IF tks = <<>> THEN Returned([compliant |-> compliance, counts |-> counts])
    ELSE LET ticket == Head(tks)
         IN  IF ~BothDates(ticket)
             THEN ComplianceCounts(Tail(tks), compliance, counts)
             ELSE LET severity == OptionalToLowerCase(ticket.severity)
                  IN  IF severity = TypeError THEN Raised
                      ELSE IF ~HasProp(slaTargets, severity)
                      THEN ComplianceCounts(Tail(tks), compliance, counts)
                      ELSE LET hoursToResolve ==
                                   HoursToResolve(ticket.createdDate, ticket.resolvedDate)
                               \* an inherited function as target compares false
                               met == /\ severity.str \in DOMAIN slaTargets
                                      /\ WithinTarget(hoursToResolve,
                                                      slaTargets[severity.str])
                           IN  ComplianceCounts(Tail(tks),
                                   IF met THEN IncrProp(compliance, severity.str)
                                   ELSE compliance,
                                   IncrProp(counts, severity.str))

calculateSLACompliance(tks) ==
    LET acc == ComplianceCounts(tks, ZeroMap, ZeroMap)
    IN  IF acc.raised THEN Raised
        ELSE Returned([severity \in DOMAIN acc.value.compliant |->
                 IF Positive(acc.value.counts[severity])
                 THEN ParseFloat(CounterToFixed1(acc.value.compliant[severity],
                                                 acc.value.counts[severity].v))
                 ELSE acc.value.compliant[severity]])

(***************************************************************************)
(* processTickets                                                          *)
(***************************************************************************)
\* Date.prototype.toISOString for the first minute after the epoch
Pad(n, width) ==
    IF width = 3 /\ n < 10 THEN "00" \o ToString(n)
    ELSE IF (width = 3 /\ n < 100) \/ (width = 2 /\ n < 10) THEN "0" \o ToString(n)
    ELSE ToString(n)

ToISOString(ms) ==
    "1970-01-01T00:00:" \o Pad(ms \div 1000, 2) \o "." \o Pad(ms % 1000, 3) \o "Z"

\* t.status !== 'resolved' && t.status !== 'closed'
IsOpenIgnoringClosed(t) == t.status # Str("resolved")
IsOpen(t) == t.status # Str("resolved") /\ t.status # Str("closed")
\* t.status === 'resolved' || t.status === 'closed'
IsResolved(t) == t.status = Str("resolved") \/ t.status = Str("closed")

\* array.filter(p).length
RECURSIVE CountOpen(_)
CountOpen(tks) ==
    IF tks = <<>> THEN 0
    ELSE (IF IsOpen(Head(tks)) THEN 1 ELSE 0) + CountOpen(Tail(tks))

RECURSIVE CountResolved(_)
CountResolved(tks) ==
    IF tks = <<>> THEN 0
    ELSE (IF IsResolved(Head(tks)) THEN 1 ELSE 0) + CountResolved(Tail(tks))

processTickets(request, now) ==
    LET sd == calculateSeverityDistribution(request.tickets.items)
        art == calculateResolutionTimes(request.tickets.items)
        slac == calculateSLACompliance(request.tickets.items)
    IN  IF sd.raised \/ art.raised \/ slac.raised THEN Raised
        ELSE Returned([projectId |-> request.projectId,
                       timestamp |-> ToISOString(now),
                       severityDistribution |-> sd.value,
                       averageResolutionTimes |-> art.value,
                       slaCompliance |-> slac.value,
                       ticketCount |-> Len(request.tickets.items),
                       openTickets |-> CountOpen(request.tickets.items),
                       resolvedTickets |-> CountResolved(request.tickets.items)])

(***************************************************************************)
(* Tickets.  The engine is run on every list of at most MaxTickets tickets *)
(* drawn from TicketPool.                                                  *)
(***************************************************************************)
Ticket(severity, status, createdDate, resolvedDate) ==
    [id |-> Str("T-1"), severity |-> severity, status |-> status,
     createdDate |-> createdDate, resolvedDate |-> resolvedDate]

Day0 == Str("2024-01-01T00:00:00Z")
Unparseable == Str("not-a-date")

\* recognized severity, both dates parseable: at and past each SLA target
DatedTickets ==
    { Ticket(Str("critical"), Str("resolved"), Day0, Str("2024-01-01T04:00:00Z")),
      Ticket(Str("CRITICAL"), Str("closed"), Day0, Str("2024-01-01T04:00:00.001Z")),
      Ticket(Str("high"), Str("resolved"), Day0, Str("2024-01-01T12:00:00Z")),
      Ticket(Str("High"), Str("closed"), Day0, Str("2024-01-02T00:00:00Z")),
      Ticket(Str("HIGH"), Str("Resolved"), Day0, Str("2024-01-02T01:00:00Z")),
      Ticket(Str("medium"), Str("resolved"), Day0, Str("2024-01-04T00:00:00Z")),
      Ticket(Str("medium"), Str("CLOSED"), Day0, Str("2024-01-04T01:00:00Z")),
      Ticket(Str("low"), Str("resolved"), Day0, Str("2024-01-08T00:00:00Z")),
      Ticket(Str("Low"), Str("done"), Day0, Str("2024-01-08T01:00:00Z")) }

\* recognized severity, a date absent or unparseable
PartlyDatedTickets ==
    { Ticket(Str("high"), Str("open"), Day0, Undefined),
      Ticket(Str("medium"), Str("resolved"), Day0, Undefined),
      Ticket(Str("high"), Str("resolved"), Unparseable, Str("2024-01-01T12:00:00Z")),
      Ticket(Str("critical"), Str("resolved"), Day0, Unparseable) }

\* severity absent, not a string, or not one of the four
OddSeverityTickets ==
    { Ticket(Undefined, Undefined, Undefined, Undefined),
      Ticket(N(5), Str("open"), Day0, Str("2024-01-01T04:00:00Z")),
      Ticket(Str("constructor"), Str("resolved"), Day0, Str("2024-01-01T04:00:00Z")),
      Ticket(Str("urgent"), Str("in progress"), Day0, Str("2024-01-01T04:00:00Z")) }

TicketPool == DatedTickets \cup PartlyDatedTickets \cup OddSeverityTickets

TicketLists == UNION { [1..n -> TicketPool] : n \in 0..MaxTickets }

NotComputed == [raised |-> FALSE, pending |-> TRUE]

(***************************************************************************)
(* validateRequest                                                         *)
(***************************************************************************)
AllowedSeverities == {"low", "medium", "high", "critical"}

\* the errors one ticket adds, or TypeError when severity has no toLowerCase
TicketErrors(ticket, index) ==
    LET severity == OptionalToLowerCase(ticket.severity)
        idErr == IF ~Truthy(ticket.id)
                 THEN <<"Ticket " \o ToString(index) \o ": id is required">>
                 ELSE <<>>
        sevErr == IF ~Truthy(ticket.severity)
                  THEN <<"Ticket " \o ToString(index) \o ": severity is required">>
                  ELSE <<>>
        inErr == IF severity.type = "string" /\ severity.str \in AllowedSeverities
                 THEN <<>>
                 ELSE <<"Ticket " \o ToString(index)
                        \o ": severity must be one of: low, medium, high, critical">>
    IN  IF severity = TypeError THEN Raised ELSE Returned(idErr \o sevErr \o inErr)

RECURSIVE TicketsErrors(_, _)
TicketsErrors(tks, index) ==
    IF index >= Len(tks) THEN Returned(<<>>)
    ELSE LET first == TicketErrors(tks[index + 1], index)
             rest == TicketsErrors(tks, index + 1)
         IN  IF first.raised \/ rest.raised THEN Raised
             ELSE Returned(first.value \o rest.value)

validateRequest(ev) ==
    LET idErr == IF ~Truthy(ev.projectId) \/ ev.projectId.type # "string"
                 THEN <<"projectId is required and must be a string">>
                 ELSE <<>>
        tkErr == IF ev.tickets.type # "array"
                 THEN Returned(<<"tickets must be an array">>)
                 ELSE IF Len(ev.tickets.items) = 0
                 THEN Returned(<<"tickets array cannot be empty">>)
                 ELSE TicketsErrors(ev.tickets.items, 0)
    IN  IF tkErr.raised THEN Raised
        ELSE Returned([isValid |-> Len(idErr \o tkErr.value) = 0,
                       errors |-> idErr \o tkErr.value])

(***************************************************************************)
(* The table and the DocumentClient                                        *)
(***************************************************************************)
\* two concurrent invocations: every race on one key is between two writers
Invocations == {1, 2}

ClockStep == 1000 \div 2

ProjectIds == {Str("P1")}
Timestamps == {ToISOString(k * ClockStep) : k \in 0..MaxTicks}
Keys == [projectId : ProjectIds, timestamp : Timestamps]

NoItem == [absent |-> TRUE]
None == [none |-> TRUE]

TableName == "MetricsHistory"

\* Math.floor(Date.now() / 1000) + (365 * 24 * 60 * 60)
Ttl(now) == (now \div 1000) + (365 * 24 * 60 * 60)

\* the params object storeMetrics builds
UpdateParams(m, now) ==
    [TableName |-> TableName,
     Key |-> [projectId |-> m.projectId, timestamp |-> m.timestamp],
     sd |-> m.severityDistribution,
     art |-> m.averageResolutionTimes,
     slac |-> m.slaCompliance,
     tc |-> m.ticketCount,
     ot |-> m.openTickets,
     rt |-> m.resolvedTickets,
     ttl |-> Ttl(now),
     updatedAt |-> ToISOString(now),
     ReturnValues |-> "ALL_NEW"]

\* #ttlField = if_not_exists(#ttlField, :ttl)
IfNotExistsOverwrite(item, value) == value
IfNotExists(item, value) == IF item = NoItem THEN value ELSE item.ttl

\* the item after the UpdateExpression is applied to old
ApplyUpdate(old, p) ==
    [projectId |-> p.Key.projectId,
     timestamp |-> p.Key.timestamp,
     severityDistribution |-> p.sd,
     averageResolutionTimes |-> p.art,
     slaCompliance |-> p.slac,
     ticketCount |-> p.tc,
     openTickets |-> p.ot,
     resolvedTickets |-> p.rt,
     ttl |-> IfNotExists(old, p.ttl),
     updatedAt |-> p.updatedAt]

\* what the caller built, without reading the table back
ItemAsSent(old, new, p) == ApplyUpdate(NoItem, p)
\* result.Attributes under ReturnValues: 'ALL_NEW'
ReturnedAttributes(old, new, p) == new

\* errors the table answers an update with
ErrorCodes == {"ResourceNotFoundException",
               "ProvisionedThroughputExceededException",
               "ValidationException",
               "AccessDeniedException"}

\* the SDK retries throttling errors, not client errors
Retryable(code) == code = "ProvisionedThroughputExceededException"

ServiceMessage(code) ==
    CASE code = "ResourceNotFoundException" -> "Requested resource not found"
      [] code = "ProvisionedThroughputExceededException" ->
             "The level of configured provisioned throughput for the table was exceeded"
      [] code = "ValidationException" -> "One or more parameter values were invalid"
      [] OTHER -> "User is not authorized to perform: dynamodb:UpdateItem"

ServiceError(code) ==
    [code |-> Str(code), message |-> ServiceMessage(code),
     retryable |-> Retryable(code)]

\* new Error(message): no code, no retryable
NewError(message) == [code |-> Undefined, message |-> message, retryable |-> FALSE]

maxRetries == 3

\* what the catch block of storeMetrics throws for the error it caught
Rethrow(error) ==
    IF error.code = Str("ResourceNotFoundException")
    THEN NewError("DynamoDB table '" \o TableName \o "' not found")
    ELSE IF error.code = Str("ProvisionedThroughputExceededException")
    THEN NewError("DynamoDB write capacity exceeded. Please try again later.")
    ELSE IF error.code = Str("ValidationException")
    THEN NewError("DynamoDB validation error: " \o error.message)
    ELSE error

(***************************************************************************)
(* Events the handler is invoked with                                      *)
(***************************************************************************)
Events ==
    { [projectId |-> Str("P1"),
       tickets |-> Arr(<<Ticket(Str("high"), Str("resolved"), Day0,
                                Str("2024-01-01T12:00:00Z"))>>)],
      [projectId |-> Str("P1"),
       tickets |-> Arr(<<Ticket(Str("critical"), Str("closed"), Day0,
                                Str("2024-01-01T04:00:00.001Z")),
                         Ticket(Str("High"), Str("open"), Day0, Undefined)>>)],
      [projectId |-> Undefined, tickets |-> Arr(<<>>)],
      [projectId |-> Str("P1"),
       tickets |-> Arr(<<Ticket(N(5), Str("open"), Day0, Undefined)>>)],
      [projectId |-> N(7), tickets |-> Undefined],
      [projectId |-> Str("P1"),
       tickets |-> Arr(<<[Ticket(Str("urgent"), Str("open"), Day0, Undefined)
                            EXCEPT !.id = Undefined]>>)] }

(***************************************************************************)
(* Initial state                                                           *)
(***************************************************************************)
HandlerInit ==
    /\ clock = 0
    /\ store = [k \in Keys |-> NoItem]
    /\ writeLog = <<>>
    /\ pc = [i \in Invocations |-> "idle"]
    /\ event = [i \in Invocations |-> None]
    /\ metrics = [i \in Invocations |-> None]
    /\ params = [i \in Invocations |-> None]
    /\ calls = [i \in Invocations |-> 0]
    /\ attempts = [i \in Invocations |-> 0]
    /\ reply = [i \in Invocations |-> None]
    /\ thrown = [i \in Invocations |-> None]
    /\ response = [i \in Invocations |-> None]

Init ==
    /\ tickets = <<>>
    /\ result = NotComputed
    /\ HandlerInit

EngineInit ==
    /\ tickets \in TicketLists
    /\ result = NotComputed
    /\ HandlerInit

(***************************************************************************)
(* Engine action: processTickets applied to the ticket list                *)
(***************************************************************************)
ProcessTickets ==
    /\ result = NotComputed
    /\ result' = processTickets([projectId |-> Str("P1"), tickets |-> Arr(tickets)],
                                clock)
    /\ UNCHANGED <<tickets, clock, store, writeLog, pc, event, metrics, params,
                   calls, attempts, reply, thrown, response>>

(***************************************************************************)
(* Handler actions                                                         *)
(***************************************************************************)
Response(status, data) == [statusCode |-> status, data |-> data]

\* handler, up to the await of storeMetrics: validateRequest, then
\* processTickets; a TypeError in either lands in the catch block
HandlerStart(i, ev) ==
    /\ pc[i] = "idle"
    /\ event' = [event EXCEPT ![i] = ev]
    /\ LET validationResult == validateRequest(ev)
           computed == processTickets(ev, clock)
       IN  IF validationResult.raised
           THEN /\ pc' = [pc EXCEPT ![i] = "done"]
                /\ response' = [response EXCEPT ![i] = Response(500, None)]
                /\ UNCHANGED metrics
           ELSE IF ~validationResult.value.isValid
           THEN /\ pc' = [pc EXCEPT ![i] = "done"]
                /\ response' = [response EXCEPT ![i] = Response(400, None)]
                /\ UNCHANGED metrics
           ELSE IF computed.raised
           THEN /\ pc' = [pc EXCEPT ![i] = "done"]
                /\ response' = [response EXCEPT ![i] = Response(500, None)]
                /\ UNCHANGED metrics
           ELSE /\ pc' = [pc EXCEPT ![i] = "computed"]
                /\ metrics' = [metrics EXCEPT ![i] = computed.value]
                /\ UNCHANGED response
    /\ UNCHANGED <<tickets, result, clock, store, writeLog, params, calls,
                   attempts, reply, thrown>>

\* storeMetrics, up to the await: build params, call dynamoDB.update
StoreMetricsCall(i) ==
    /\ pc[i] = "computed"
    /\ params' = [params EXCEPT ![i] = UpdateParams(metrics[i], clock)]
    /\ calls' = [calls EXCEPT ![i] = @ + 1]
    /\ attempts' = [attempts EXCEPT ![i] = @ + 1]
    /\ pc' = [pc EXCEPT ![i] = "inflight"]
    /\ UNCHANGED <<tickets, result, clock, store, writeLog, event, metrics,
                   reply, thrown, response>>

\* the table applies the update atomically and answers with the new item
TableApply(i) ==
    /\ pc[i] = "inflight"
    /\ LET key == params[i].Key
           new == ApplyUpdate(store[key], params[i])
       IN  /\ store' = [store EXCEPT ![key] = new]
           /\ reply' = [reply EXCEPT ![i] =
                  [ok |-> TRUE,
                   Attributes |-> ReturnedAttributes(store[key], new, params[i])]]
           /\ writeLog' = Append(writeLog,
                  [inv |-> i, key |-> key, ttl |-> params[i].ttl,
                   before |-> store[key], after |-> new,
                   racing |-> {j \in Invocations \ {i} :
                                  pc[j] \in {"inflight", "rejected"}
                                  /\ params[j].Key = key}])
    /\ pc' = [pc EXCEPT ![i] = "replied"]
    /\ UNCHANGED <<tickets, result, clock, event, metrics, params, calls,
                   attempts, thrown, response>>

\* the table rejects the update
TableReject(i, code) ==
    /\ pc[i] = "inflight"
    /\ reply' = [reply EXCEPT ![i] = [ok |-> FALSE, error |-> ServiceError(code)]]
    /\ pc' = [pc EXCEPT ![i] = "rejected"]
    /\ UNCHANGED <<tickets, result, clock, store, writeLog, event, metrics,
                   params, calls, attempts, thrown, response>>

\* the client sends a retryable request again, at most maxRetries times
ShouldRetry(i) == reply[i].error.retryable /\ attempts[i] - 1 < maxRetries

ClientRetry(i) ==
    /\ pc[i] = "rejected"
    /\ ShouldRetry(i)
    /\ attempts' = [attempts EXCEPT ![i] = @ + 1]
    /\ pc' = [pc EXCEPT ![i] = "inflight"]
    /\ UNCHANGED <<tickets, result, clock, store, writeLog, event, metrics,
                   params, calls, reply, thrown, response>>

\* a catch block that calls dynamoDB.update again instead of rethrowing
StoreMetricsCatchAndCallAgain(i) ==
    /\ pc[i] = "rejected"
    /\ ~ShouldRetry(i)
    /\ calls' = [calls EXCEPT ![i] = @ + 1]
    /\ attempts' = [attempts EXCEPT ![i] = @ + 1]
    /\ pc' = [pc EXCEPT ![i] = "inflight"]
    /\ UNCHANGED <<tickets, result, clock, store, writeLog, event, metrics,
                   params, reply, thrown, response>>

\* the promise rejects: the catch block of storeMetrics rethrows and the
\* catch block of handler answers 500
StoreMetricsCatch(i) ==
    /\ pc[i] = "rejected"
    /\ ~ShouldRetry(i)
    /\ thrown' = [thrown EXCEPT ![i] = Rethrow(reply[i].error)]
    /\ response' = [response EXCEPT ![i] = Response(500, None)]
    /\ pc' = [pc EXCEPT ![i] = "done"]
    /\ UNCHANGED <<tickets, result, clock, store, writeLog, event, metrics,
                   params, calls, attempts, reply>>

\* the promise resolves: storeMetrics returns result.Attributes and the
\* handler answers 200 with it
HandlerReturn(i) ==
    /\ pc[i] = "replied"
    /\ response' = [response EXCEPT ![i] = Response(200, reply[i].Attributes)]
    /\ pc' = [pc EXCEPT ![i] = "done"]
    /\ UNCHANGED <<tickets, result, clock, store, writeLog, event, metrics,
                   params, calls, attempts, reply, thrown>>

Tick ==
    /\ clock < MaxTicks * ClockStep
    /\ clock' = clock + ClockStep
    /\ UNCHANGED <<tickets, result, store, writeLog, pc, event, metrics, params,
                   calls, attempts, reply, thrown, response>>

Next ==
    \/ \E i \in Invocations, ev \in Events : HandlerStart(i, ev)
    \/ \E i \in Invocations : StoreMetricsCall(i)
    \/ \E i \in Invocations : TableApply(i)
    \/ \E i \in Invocations, code \in ErrorCodes : TableReject(i, code)
    \/ \E i \in Invocations : ClientRetry(i)
    \/ \E i \in Invocations : StoreMetricsCatch(i)
    \/ \E i \in Invocations : HandlerReturn(i)
    \/ Tick

Spec == Init /\ [][Next]_vars

EngineNext == ProcessTickets

EngineSpec == EngineInit /\ [][EngineNext]_vars

(***************************************************************************)
(* Properties of the analytics engine (checked under EngineSpec)           *)
(***************************************************************************)
EngineDone == result # NotComputed
EngineReturned == EngineDone /\ ~result.raised

\* the spellings of each severity among the modelled inputs
Spellings(sev) ==
    CASE sev = "low" -> {Str("low"), Str("Low")}
      [] sev = "medium" -> {Str("medium")}
      [] sev = "high" -> {Str("high"), Str("High"), Str("HIGH")}
      [] sev = "critical" -> {Str("critical"), Str("CRITICAL")}

Recognized(t) == \E sev \in Severities : t.severity \in Spellings(sev)

DatePresent(d) == d # Undefined /\ d # Str("")
DateUnparseable(d) == DatePresent(d) /\ DateParse(d).nan

RemoveAt(seq, j) == [k \in 1..(Len(seq) - 1) |-> IF k < j THEN seq[k] ELSE seq[k + 1]]

Abs(x) == IF x < 0 THEN 0 - x ELSE x

\* C6: processTickets never raises, whatever the ticket list, and each of
\* the three maps it returns has exactly the keys low, medium, high,
\* critical.
C6_NeverRaisesFourKeys ==
    EngineDone =>
        /\ ~result.raised
        /\ DOMAIN result.value.severityDistribution = Severities
        /\ DOMAIN result.value.averageResolutionTimes = Severities
        /\ DOMAIN result.value.slaCompliance = Severities

\* C7: a ticket with a present but unparseable createdDate or resolvedDate
\* contributes nothing: the average resolution time and the SLA compliance
\* of its severity equal those of the list without that ticket.
C7_UnparseableDateIsAbsent ==
    EngineReturned =>
        \A j \in 1..Len(tickets) :
            /\ Recognized(tickets[j])
            /\ DateUnparseable(tickets[j].createdDate)
               \/ DateUnparseable(tickets[j].resolvedDate)
            => \A sev \in Severities :
                   tickets[j].severity \in Spellings(sev) =>
                       /\ calculateResolutionTimes(tickets).value[sev]
                          = calculateResolutionTimes(RemoveAt(tickets, j)).value[sev]
                       /\ calculateSLACompliance(tickets).value[sev]
                          = calculateSLACompliance(RemoveAt(tickets, j)).value[sev]

\* C8: ticketCount = openTickets + resolvedTickets, where the resolved
\* tickets are exactly those whose status is 'resolved' or 'closed'
\* (case-sensitive) and every other ticket, whatever its status, is open.
C8_CountsAddUp ==
    EngineReturned =>
        LET resolved == {j \in 1..Len(tickets) :
                            tickets[j].status \in {Str("resolved"), Str("closed")}}
        IN  /\ result.value.ticketCount = Len(tickets)
            /\ result.value.resolvedTickets = Cardinality(resolved)
            /\ result.value.openTickets = Len(tickets) - Cardinality(resolved)
            /\ result.value.ticketCount
               = result.value.openTickets + result.value.resolvedTickets

\* C8 witness: a returned record for a list with a ticket without status,
\* one with a differently-cased status and one closed ticket
C8_Witness ==
    /\ EngineReturned
    /\ \E j \in 1..Len(tickets) : tickets[j].status = Undefined
    /\ \E j \in 1..Len(tickets) : tickets[j].status = Str("CLOSED")
    /\ \E j \in 1..Len(tickets) : tickets[j].status = Str("closed")
    /\ result.value.openTickets = 2
    /\ result.value.resolvedTickets = 1

TargetHours(sev) ==
    CASE sev = "critical" -> 4
      [] sev = "high" -> 24
      [] sev = "medium" -> 72
      [] sev = "low" -> 168

Qualifying(sev) ==
    {j \in 1..Len(tickets) :
        /\ tickets[j].severity \in Spellings(sev)
        /\ DatePresent(tickets[j].createdDate)
        /\ DatePresent(tickets[j].resolvedDate)}

\* elapsed time <= target; an unparseable date has no elapsed time
Compliant(sev) ==
    {j \in Qualifying(sev) :
        LET c == DateParse(tickets[j].createdDate)
            r == DateParse(tickets[j].resolvedDate)
        IN  /\ ~c.nan
            /\ ~r.nan
            /\ r.v - c.v <= TargetHours(sev) * MsPerHour}

DistributionSum ==
    LET d == result.value.severityDistribution
    IN  d["low"].v + d["medium"].v + d["high"].v + d["critical"].v

\* C10 as stated: for every non-empty ticket list the four
\* severityDistribution values sum to within 0.4 of 100.
C10_SumNear100 ==
    (EngineReturned /\ Len(tickets) > 0) => Abs(DistributionSum - 1000) <= 4

\* C10 as amended: for every non-empty ticket list in which every ticket
\* has one of the four severities (in any letter case), the four
\* severityDistribution values sum to within 0.4 of 100.
C10_SumNear100Recognized ==
    (/\ EngineReturned
     /\ Len(tickets) > 0
     /\ \A j \in 1..Len(tickets) : Recognized(tickets[j]))
    => Abs(DistributionSum - 1000) <= 4

\* C10 witness: three tickets of three severities, 33.3 each
C10_Witness ==
    /\ EngineReturned
    /\ Len(tickets) = 3
    /\ \A j \in 1..Len(tickets) : Recognized(tickets[j])
    /\ \E j \in 1..Len(tickets) : tickets[j].severity = Str("High")
    /\ DistributionSum = 999

(***************************************************************************)
(* Properties of storeMetrics and the handler (checked under Spec)         *)
(***************************************************************************)
\* the computed fields of an item are those of a metrics record
SameComputedFields(item, m) ==
    /\ item.severityDistribution = m.severityDistribution
    /\ item.averageResolutionTimes = m.averageResolutionTimes
    /\ item.slaCompliance = m.slaCompliance
    /\ item.ticketCount = m.ticketCount
    /\ item.openTickets = m.openTickets
    /\ item.resolvedTickets = m.resolvedTickets

\* the positions in writeLog of the updates applied to key k
UpdatesOf(k) == {n \in 1..Len(writeLog) : writeLog[n].key = k}
FirstUpdateOf(k) == CHOOSE n \in UpdatesOf(k) : \A m \in UpdatesOf(k) : n <= m

\* C1: for every key, ttl is set by the first successful write to the value
\* that write proposed and keeps that value in every later state; a later
\* write to the key replaces the computed fields and leaves ttl alone.
C1_TtlFixedAtFirstWrite ==
    [][\A k \in Keys :
          /\ store[k] # NoItem =>
                 /\ store'[k] # NoItem
                 /\ store'[k].ttl = store[k].ttl
          /\ store'[k] # store[k] =>
                 \E i \in Invocations :
                     /\ pc[i] = "inflight"
                     /\ pc'[i] = "replied"
                     /\ params[i].Key = k
                     /\ SameComputedFields(store'[k], metrics[i])
                     /\ store[k] = NoItem => store'[k].ttl = params[i].ttl]_vars

\* C1 witness: a key written twice, the second time with other metrics and
\* a later proposed ttl; it holds the second metrics and the first ttl
C1_Witness ==
    \E k \in Keys :
        /\ Cardinality(UpdatesOf(k)) = 2
        /\ LET first == writeLog[1]
               second == writeLog[2]
           IN  /\ second.ttl > first.ttl
               /\ ~SameComputedFields(first.after, metrics[second.inv])
               /\ SameComputedFields(store[k], metrics[second.inv])
               /\ store[k].ttl = first.ttl

\* C2: when two invocations race on one key, in every interleaving the
\* stored ttl is the one proposed by the update the table applied first,
\* and every update applied after it left ttl as it found it.
C2_NoLostUpdateOnTtl ==
    \A k \in Keys :
        IF UpdatesOf(k) = {} THEN store[k] = NoItem
        ELSE /\ store[k] # NoItem
             /\ store[k].ttl = writeLog[FirstUpdateOf(k)].ttl
             /\ writeLog[FirstUpdateOf(k)].before = NoItem
             /\ \A n \in UpdatesOf(k) \ {FirstUpdateOf(k)} :
                    /\ writeLog[n].before # NoItem
                    /\ writeLog[n].after.ttl = writeLog[n].before.ttl
                    /\ writeLog[n].after.ttl = writeLog[FirstUpdateOf(k)].ttl

\* C2 witness: both invocations had their update for the key in flight at
\* once, proposing different ttls; both were applied
C2_Witness ==
    /\ Len(writeLog) = 2
    /\ writeLog[1].key = writeLog[2].key
    /\ writeLog[1].racing # {}
    /\ writeLog[1].ttl # writeLog[2].ttl
    /\ store[writeLog[1].key].ttl = writeLog[1].ttl

\* C3: a successful storeMetrics call returns the item the table holds right
\* after its own update: the computed fields are the caller's metrics, and
\* when the key already had a ttl the returned ttl is that earlier value,
\* whatever ttl the caller proposed; the handler answers 200 with that item.
C3_ReturnsPostWriteItem ==
    [][\A i \in Invocations :
          /\ (pc[i] = "inflight" /\ pc'[i] = "replied") =>
                 /\ reply'[i].ok
                 /\ reply'[i].Attributes = store'[params[i].Key]
                 /\ SameComputedFields(reply'[i].Attributes, metrics[i])
                 /\ store[params[i].Key] # NoItem =>
                        reply'[i].Attributes.ttl = store[params[i].Key].ttl
          /\ (pc[i] = "replied" /\ pc'[i] = "done") =>
                 response'[i] = Response(200, reply[i].Attributes)]_vars

\* C3 witness: an invocation answered 200 with an item whose ttl is the one
\* it found, not the one it proposed
C3_Witness ==
    \E i \in Invocations :
        /\ pc[i] = "done"
        /\ response[i].statusCode = 200
        /\ \E n \in 1..Len(writeLog) :
               /\ writeLog[n].inv = i
               /\ writeLog[n].before # NoItem
               /\ writeLog[n].before.ttl # params[i].ttl
               /\ response[i].data.ttl = writeLog[n].before.ttl
               /\ SameComputedFields(response[i].data, metrics[i])

\* C4: whatever the kind of the failure of the update, the error storeMetrics
\* throws carries the failure kind (the code) of the error it caught.
C4_ThrownKeepsFailureKind ==
    \A i \in Invocations :
        thrown[i] # None => thrown[i].code = reply[i].error.code

\* C5 as stated: within one invocation at most one update attempt reaches
\* the table, and a failed attempt is followed by no other.
C5_AtMostOneAttempt ==
    \A i \in Invocations : calls[i] <= 1 /\ attempts[i] <= 1

\* C5 as amended: within one invocation storeMetrics calls the client's
\* update at most once and a failure the client reports ends the invocation
\* with status 500 and no further attempt; the client itself sends the
\* request again only after a capacity (throttling) rejection, so at most
\* 1 + 3 requests reach the table.
C5_OneCallBoundedRetries ==
    [][\A i \in Invocations :
          /\ calls'[i] <= 1
          /\ attempts'[i] <= 4
          /\ (attempts'[i] > attempts[i] /\ attempts[i] >= 1) =>
                 /\ calls'[i] = calls[i]
                 /\ ~reply[i].ok
                 /\ reply[i].error.code = Str("ProvisionedThroughputExceededException")
          /\ (pc[i] = "rejected" /\ pc'[i] = "done") =>
                 /\ thrown'[i] # None
                 /\ response'[i].statusCode = 500
          /\ pc[i] = "done" => (attempts'[i] = attempts[i] /\ pc'[i] = "done")]_vars

\* C5 witness: one call, four requests, all rejected for capacity, then 500
C5_Witness ==
    \E i \in Invocations :
        /\ calls[i] = 1
        /\ attempts[i] = 4
        /\ pc[i] = "done"
        /\ thrown[i] # None
        /\ response[i].statusCode = 500

(***************************************************************************)
(* Further properties of the analytics engine (checked under EngineSpec)   *)
(***************************************************************************)
\* the recognized-severity tickets of the list that have no resolvedDate
Unresolved ==
    {j \in 1..Len(tickets) :
        Recognized(tickets[j]) /\ ~DatePresent(tickets[j].resolvedDate)}

SeverityOf(t) == CHOOSE sev \in Severities : t.severity \in Spellings(sev)

OnlyOfItsSeverity(j) ==
    \A k \in 1..Len(tickets) :
        k # j => tickets[k].severity \notin Spellings(SeverityOf(tickets[j]))

\* the part of C11 that does not depend on status: the ticket adds nothing
\* to the average resolution time or the SLA compliance of its severity
\* (both are 0 when it is the only ticket of that severity) and is counted
\* in ticketCount
ExcludedFromDenominators(j) ==
    LET sev == SeverityOf(tickets[j])
        without == processTickets([projectId |-> Str("P1"),
                                   tickets |-> Arr(RemoveAt(tickets, j))], clock).value
    IN  /\ result.value.averageResolutionTimes[sev] = without.averageResolutionTimes[sev]
        /\ result.value.slaCompliance[sev] = without.slaCompliance[sev]
        /\ OnlyOfItsSeverity(j) =>
               /\ result.value.averageResolutionTimes[sev] = N(0)
               /\ result.value.slaCompliance[sev] = N(0)
        /\ result.value.ticketCount = without.ticketCount + 1

OpenWithout(j) ==
    processTickets([projectId |-> Str("P1"),
                    tickets |-> Arr(RemoveAt(tickets, j))], clock).value.openTickets

ResolvedWithout(j) ==
    processTickets([projectId |-> Str("P1"),
                    tickets |-> Arr(RemoveAt(tickets, j))], clock).value.resolvedTickets

\* C11 as stated: a ticket without resolvedDate is excluded from the
\* averageResolutionTimes and slaCompliance denominators of its severity
\* (both stay 0 when it is the only ticket of that severity) and is counted
\* in ticketCount and in openTickets.
C11_UnresolvedCountedOpen ==
    EngineReturned =>
        \A j \in Unresolved :
            /\ ExcludedFromDenominators(j)
            /\ result.value.openTickets = OpenWithout(j) + 1

\* C11 as amended: a ticket without resolvedDate is excluded from the
\* averageResolutionTimes and slaCompliance denominators of its severity
\* (both stay 0 when it is the only ticket of that severity) and is counted
\* in ticketCount; it is counted in openTickets unless its status is
\* 'resolved' or 'closed', and then it is counted in resolvedTickets.
C11_UnresolvedCountedByStatus ==
    EngineReturned =>
        \A j \in Unresolved :
            /\ ExcludedFromDenominators(j)
            /\ IF tickets[j].status \in {Str("resolved"), Str("closed")}
               THEN /\ result.value.openTickets = OpenWithout(j)
                    /\ result.value.resolvedTickets = ResolvedWithout(j) + 1
               ELSE /\ result.value.openTickets = OpenWithout(j) + 1
                    /\ result.value.resolvedTickets = ResolvedWithout(j)

\* C11 witness: an open ticket without resolvedDate next to a dated ticket
\* of its severity, and a resolved ticket without resolvedDate that is the
\* only one of its severity
C11_Witness ==
    /\ EngineReturned
    /\ \E j \in Unresolved :
           /\ tickets[j].status = Str("open")
           /\ ~OnlyOfItsSeverity(j)
           /\ result.value.averageResolutionTimes[SeverityOf(tickets[j])] = N(120)
    /\ \E j \in Unresolved :
           /\ tickets[j].status = Str("resolved")
           /\ OnlyOfItsSeverity(j)
           /\ result.value.slaCompliance[SeverityOf(tickets[j])] = N(0)
    /\ result.value.ticketCount = 3
    /\ result.value.openTickets = 1

AllZero(map) ==
    /\ DOMAIN map = {"low", "medium", "high", "critical"}
    /\ \A sev \in DOMAIN map :
           map[sev].type = "number" /\ ~map[sev].nan /\ map[sev].v = 0

RequestInvalid(ev) ==
    \/ ev.projectId.type # "string"
    \/ ev.projectId = Str("")
    \/ IF ev.tickets.type # "array" THEN TRUE
       ELSE \/ Len(ev.tickets.items) = 0
            \/ \E j \in 1..Len(ev.tickets.items) :
                   \/ ev.tickets.items[j].id \in {Undefined, Str("")}
                   \/ ~Recognized(ev.tickets.items[j])

WroteToStore(i) == \E n \in 1..Len(writeLog) : writeLog[n].inv = i

\* C13: the table is written only for a request that passed validation: an
\* invocation whose request is invalid (projectId absent or not a string,
\* tickets not a list or empty, a ticket without id or with a severity
\* outside the four allowed values) answers 400 and writes nothing, and an
\* invocation answers 200 only after its update was applied.
C13_WriteOnlyAfterValidation ==
    \A i \in Invocations :
        /\ (event[i] # None /\ RequestInvalid(event[i])) =>
               /\ pc[i] = "done"
               /\ response[i].statusCode = 400
               /\ calls[i] = 0
               /\ ~WroteToStore(i)
        /\ WroteToStore(i) => ~RequestInvalid(event[i])
        /\ (response[i] # None /\ response[i].statusCode = 200) => WroteToStore(i)

====
